---------------------------- MODULE Spec2Model ----------------------------
(***************************************************************************)
(* Availability-calendar updater (scripts/update_availability_2026.py):    *)
(* the parser of the PMS date strings, the per-day state calculator, the   *)
(* reconciler that writes the computed states to the calendar table, and   *)
(* the batch run over the cabin mappings.                                  *)
(*                                                                         *)
(* Strings are sequences of character codes (Python compares strings by    *)
(* code point), dates are <<year, month, day>> triples of the proleptic    *)
(* Gregorian calendar, as datetime.date.                                   *)
(***************************************************************************)
EXTENDS Integers, Sequences, FiniteSets, TLC

VARIABLES
    blocked_periods,  \* calculate_states: the argument (list of period dicts)
    sorted_periods,   \* calculate_states: sorted(blocked_periods, key=startdate)
    period_idx,       \* calculate_states: position of the for loop (1-based)
    states,           \* calculate_states: the dict being built (insertion-ordered)
    calc_pc,          \* calculate_states: "start" | "loop" | "returned" | "raised"
    table,            \* availability_calendar_availability: rows {cid, date, sid}
    db,               \* _update_database: the locals of each running call
    calls,            \* number of _update_database calls made so far
    other_writes,     \* number of writes by other clients of the table so far
    cabins,           \* run: the cabin mappings get_cabins_with_calendars returned
    cabin_i,          \* run: position of the for loop over cabins (1-based)
    run_pc,           \* run and update_cabin_availability: where the batch is
    cabin,            \* update_cabin_availability: its locals for this cabin
    totals,           \* run: total_inserted, total_updated, successful, skipped, failed
    visited,          \* the positions of cabins the loop body began with, in order
    parse             \* parse_date: its argument, loop position and result

calc_vars == <<blocked_periods, sorted_periods, period_idx, states, calc_pc>>

db_vars == <<table, db, calls, other_writes>>

batch_vars == <<cabins, cabin_i, run_pc, cabin, totals, visited>>

vars == <<calc_vars, db_vars, batch_vars, parse>>

-----------------------------------------------------------------------------
(* Characters and strings                                                  *)

ChSpace == 32    \* " "
ChDash  == 45    \* "-"
ChSlash == 47    \* "/"
Ch0     == 48    \* "0"

\* None (a JSON null, or the result of dict.get on a missing key).
None == << -1 >>

\* "name = expression" of the program: the expression is evaluated once,
\* where the name is bound, and Body sees its value.
Bind(expression, Body(_)) ==
    CHOOSE result \in {Body(value) : value \in {expression}} : TRUE

IsDigit(c) == c >= Ch0 /\ c <= Ch0 + 9

AllDigits(s) == \A k \in 1..Len(s) : IsDigit(s[k])

RECURSIVE DigitsValue(_)
DigitsValue(s) ==
    IF s = <<>> THEN 0
    ELSE 10 * DigitsValue(SubSeq(s, 1, Len(s) - 1)) + (s[Len(s)] - Ch0)

\* Python's str < str: by code point at the first position where the two
\* differ, a proper prefix being smaller.
StrLess(a, b) ==
    \E k \in 1..Len(b) :
        /\ \A j \in 1..(k - 1) : j <= Len(a) /\ a[j] = b[j]
        /\ Len(a) < k \/ a[k] < b[k]

\* str.split(sep) for a one-character separator.
RECURSIVE Split(_, _)
Split(s, sep) ==
    Bind(s, LAMBDA str :
        IF \A k \in 1..Len(str) : str[k] # sep THEN <<str>>
        ELSE Bind(CHOOSE k \in 1..Len(str) :
                      str[k] = sep /\ \A j \in 1..(k - 1) : str[j] # sep,
                  LAMBDA p : <<SubSeq(str, 1, p - 1)>>
                             \o Split(SubSeq(str, p + 1, Len(str)), sep)))

Pad2(n) == <<Ch0 + (n \div 10), Ch0 + (n % 10)>>

Pad4(n) == <<Ch0 + (n \div 1000), Ch0 + ((n \div 100) % 10),
             Ch0 + ((n \div 10) % 10), Ch0 + (n % 10)>>

-----------------------------------------------------------------------------
(* datetime.date                                                           *)

MAXYEAR == 9999

IsLeap(y) == (y % 4 = 0) /\ ((y % 100 # 0) \/ (y % 400 = 0))

DaysInMonth(y, m) ==
    IF m = 2 THEN (IF IsLeap(y) THEN 29 ELSE 28)
    ELSE IF m \in {4, 6, 9, 11} THEN 30 ELSE 31

\* date(y, m, d) raises ValueError unless this holds.
ValidDate(y, m, d) ==
    /\ y >= 1 /\ y <= MAXYEAR
    /\ m >= 1 /\ m <= 12
    /\ d >= 1 /\ d <= DaysInMonth(y, m)

DateLess(a, b) ==
    \/ a[1] < b[1]
    \/ a[1] = b[1] /\ a[2] < b[2]
    \/ a[1] = b[1] /\ a[2] = b[2] /\ a[3] < b[3]

DateLeq(a, b) == a = b \/ DateLess(a, b)

DateMax(a, b) == IF DateLess(a, b) THEN b ELSE a

\* d + timedelta(days=1); OverflowError past date.max is the caller's case.
NextDay(d) ==
    IF d[3] < DaysInMonth(d[1], d[2]) THEN <<d[1], d[2], d[3] + 1>>
    ELSE IF d[2] < 12 THEN <<d[1], d[2] + 1, 1>>
    ELSE <<d[1] + 1, 1, 1>>

DateIsMax(d) == d = <<MAXYEAR, 12, 31>>

\* d.strftime('%Y-%m-%d'), and str(d)
StrfIso(d) == Pad4(d[1]) \o <<ChDash>> \o Pad2(d[2]) \o <<ChDash>> \o Pad2(d[3])

Iso(y, m, d) == StrfIso(<<y, m, d>>)

-----------------------------------------------------------------------------
(* parse_date: datetime.strptime under each format in turn                 *)

\* strptime's pattern of %m: 1[0-2]|0[1-9]|[1-9]
MatchMonth(f) == Len(f) \in {1, 2} /\ AllDigits(f) /\ DigitsValue(f) \in 1..12

\* Mutant: %d without the zero-padded alternative 0[1-9].
MatchDay_NoLeadingZero(f) ==
    \/ Len(f) \in {1, 2} /\ AllDigits(f) /\ f[1] # Ch0 /\ DigitsValue(f) \in 1..31
    \/ Len(f) = 2 /\ f[1] = ChSpace /\ IsDigit(f[2]) /\ f[2] # Ch0

\* strptime's pattern of %d: 3[0-1]|[1-2]\d|0[1-9]|[1-9]| [1-9]
MatchDay(f) ==
    \/ Len(f) \in {1, 2} /\ AllDigits(f) /\ DigitsValue(f) \in 1..31
    \/ Len(f) = 2 /\ f[1] = ChSpace /\ IsDigit(f[2]) /\ f[2] # Ch0

\* strptime's pattern of %Y: \d\d\d\d
MatchYear(f) == Len(f) = 4 /\ AllDigits(f)

FieldValue(f) == IF f[1] = ChSpace THEN DigitsValue(Tail(f)) ELSE DigitsValue(f)

\* Mutant: the day-first format is tried before the month-first one.
formats_DayFirst == <<
    [sep |-> ChSlash, Y |-> 3, m |-> 2, d |-> 1],
    [sep |-> ChDash,  Y |-> 1, m |-> 2, d |-> 3],
    [sep |-> ChDash,  Y |-> 3, m |-> 1, d |-> 2],
    [sep |-> ChSlash, Y |-> 3, m |-> 1, d |-> 2] >>

\* The formats of parse_date, in its order; each is a separator and the
\* positions of the year, month and day fields.
formats == <<
    [sep |-> ChSlash, Y |-> 3, m |-> 1, d |-> 2],    \* %m/%d/%Y
    [sep |-> ChDash,  Y |-> 1, m |-> 2, d |-> 3],    \* %Y-%m-%d
    [sep |-> ChDash,  Y |-> 3, m |-> 1, d |-> 2],    \* %m-%d-%Y
    [sep |-> ChSlash, Y |-> 3, m |-> 2, d |-> 1] >>  \* %d/%m/%Y

\* datetime.strptime(date_str, fmt).date(): the date, or None for ValueError.
Strptime(date_str, fmt) ==
    Bind(Split(date_str, fmt.sep), LAMBDA fs :
        IF /\ Len(fs) = 3
           /\ MatchYear(fs[fmt.Y]) /\ MatchMonth(fs[fmt.m])
           /\ MatchDay(fs[fmt.d])
           /\ ValidDate(DigitsValue(fs[fmt.Y]), DigitsValue(fs[fmt.m]),
                        FieldValue(fs[fmt.d]))
        THEN <<DigitsValue(fs[fmt.Y]), DigitsValue(fs[fmt.m]),
               FieldValue(fs[fmt.d])>>
        ELSE None)

RECURSIVE ParseFrom(_, _)
ParseFrom(date_str, k) ==
    IF k > Len(formats) THEN None
    ELSE Bind(Strptime(date_str, formats[k]), LAMBDA parsed :
             IF parsed # None THEN parsed ELSE ParseFrom(date_str, k + 1))

parse_date(date_str) == ParseFrom(date_str, 1)

\* parse_date as it runs, one step for each format tried.
\* pc: "idle" | "loop" | "returned"
IdleParse == parse = [pc |-> "idle", date_str |-> <<>>, k |-> 0, result |-> None]

\* try: return datetime.strptime(date_str, fmt).date()
\* except ValueError: continue
ParseTry ==
    /\ parse.pc = "loop"
    /\ parse.k <= Len(formats)
    /\ parse' = Bind(Strptime(parse.date_str, formats[parse.k]), LAMBDA parsed :
                     IF parsed # None
                     THEN [parse EXCEPT !.pc = "returned", !.result = parsed]
                     ELSE [parse EXCEPT !.k = @ + 1])
    /\ UNCHANGED <<calc_vars, db_vars, batch_vars>>

\* return None, once no format is left
ParseFail ==
    /\ parse.pc = "loop"
    /\ parse.k > Len(formats)
    /\ parse' = [parse EXCEPT !.pc = "returned", !.result = None]
    /\ UNCHANGED <<calc_vars, db_vars, batch_vars>>

-----------------------------------------------------------------------------
(* Dates as the PMS writes them                                            *)

\* A date written in format k of parse_date's list, zero-padded.
Fmt(d, k) ==
    IF k = 1 THEN Pad2(d[2]) \o <<ChSlash>> \o Pad2(d[3]) \o <<ChSlash>> \o Pad4(d[1])
    ELSE IF k = 2 THEN StrfIso(d)
    ELSE IF k = 3 THEN Pad2(d[2]) \o <<ChDash>> \o Pad2(d[3]) \o <<ChDash>> \o Pad4(d[1])
    ELSE Pad2(d[3]) \o <<ChSlash>> \o Pad2(d[2]) \o <<ChSlash>> \o Pad4(d[1])

Period(s, e, k) == [startdate |-> Fmt(s, k), enddate |-> Fmt(e, k)]

-----------------------------------------------------------------------------
(* calculate_states                                                        *)

\* STATE_IDS
CalAvailable == 5
CalIn        == 6
CalOut       == 7
CalInOut     == 8
CalBooked    == 9

\* self.start_date, self.end_date
start_date == <<2026, 1, 1>>
end_date   == <<2026, 12, 31>>

\* A dict key that is absent from a period dict.
Absent == << -2 >>

\* period.get(key)
Get(v) == IF v = Absent THEN None ELSE v

\* The sort key, p.get('startdate', '')
SortKey(p) == IF p.startdate = Absent THEN <<>> ELSE p.startdate

\* "not s" for a value that is a string or None
Falsy(v) == v = None \/ v = <<>>

\* Python dicts keep insertion order: keys in that order, and their values.
EmptyDict == [keys |-> <<>>, val |-> <<>>]

DictHas(dct, k) == k \in DOMAIN dct.val

DictSet(dct, k, v) ==
    [keys |-> IF DictHas(dct, k) THEN dct.keys ELSE Append(dct.keys, k),
     val  |-> [x \in (DOMAIN dct.val) \cup {k} |-> IF x = k THEN v ELSE dct.val[x]]]

\* Stable insertion of p after every element whose key is not greater.
RECURSIVE InsertSorted(_, _)
InsertSorted(sorted, p) ==
    IF sorted = <<>> THEN <<p>>
    ELSE IF StrLess(SortKey(p), SortKey(Head(sorted)))
         THEN <<p>> \o sorted
         ELSE <<Head(sorted)>> \o InsertSorted(Tail(sorted), p)

RECURSIVE SortFrom(_, _, _)
SortFrom(periods, k, acc) ==
    IF k > Len(periods) THEN acc
    ELSE SortFrom(periods, k + 1, InsertSorted(acc, periods[k]))

\* Mutant: the periods are processed in the order given.
Sorted_AsGiven(periods) == periods

\* sorted(blocked_periods, key=lambda p: p.get('startdate', ''))
Sorted(periods) == SortFrom(periods, 1, <<>>)

\* sorted() compares every key with another when there are two or more:
\* None against a string (or None) is a TypeError.
SortRaises(periods) ==
    Len(periods) >= 2 /\ \E k \in 1..Len(periods) : SortKey(periods[k]) = None

\* Mutant: a start date recorded as check-out becomes a plain check-in.
CheckInState_NoTurnAround(sts, date_str) ==
    IF ~DictHas(sts, date_str) THEN CalIn
    ELSE LET existing_sid == sts.val[date_str] IN
         IF existing_sid = CalIn THEN CalIn
         ELSE IF existing_sid = CalOut THEN CalIn
         ELSE IF existing_sid = CalInOut THEN CalInOut
         ELSE CalIn

\* Mutant: a start date already marked booked is taken for a turn-over.
CheckInState_BookedTurns(sts, date_str) ==
    IF ~DictHas(sts, date_str) THEN CalIn
    ELSE LET existing_sid == sts.val[date_str] IN
         IF existing_sid = CalIn THEN CalIn
         ELSE IF existing_sid = CalOut THEN CalInOut
         ELSE IF existing_sid = CalInOut THEN CalInOut
         ELSE CalInOut

\* The check-in branch: the new state of the start date from the one recorded
\* (existing_sid = states.get(date_str)).
CheckInState(sts, date_str) ==
    IF ~DictHas(sts, date_str) THEN CalIn
    ELSE LET existing_sid == sts.val[date_str] IN
         IF existing_sid = CalIn THEN CalIn
         ELSE IF existing_sid = CalOut THEN CalInOut
         ELSE IF existing_sid = CalInOut THEN CalInOut
         ELSE CalIn

\* Mutant: the nights after the first are written with the available code.
DayState_NightAvailable(sts, current_date, start, end, checkout_date) ==
    LET date_str == StrfIso(current_date) IN
    IF current_date = start
    THEN DictSet(sts, date_str, CheckInState(sts, date_str))
    ELSE IF current_date = checkout_date
    THEN DictSet(sts, date_str, CalOut)
    ELSE IF DateLess(start, current_date) /\ DateLeq(current_date, end)
    THEN DictSet(sts, date_str, CalAvailable)
    ELSE sts

\* Mutant: the check-out day is written as booked.
DayState_CheckoutAsBooked(sts, current_date, start, end, checkout_date) ==
    LET date_str == StrfIso(current_date) IN
    IF current_date = start
    THEN DictSet(sts, date_str, CheckInState(sts, date_str))
    ELSE IF current_date = checkout_date
    THEN DictSet(sts, date_str, CalBooked)
    ELSE IF DateLess(start, current_date) /\ DateLeq(current_date, end)
    THEN DictSet(sts, date_str, CalBooked)
    ELSE sts

\* One pass of the while loop's body for current_date.
DayState(sts, current_date, start, end, checkout_date) ==
    LET date_str == StrfIso(current_date) IN
    IF current_date = start
    THEN DictSet(sts, date_str, CheckInState(sts, date_str))
    ELSE IF current_date = checkout_date
    THEN DictSet(sts, date_str, CalOut)
    ELSE IF DateLess(start, current_date) /\ DateLeq(current_date, end)
    THEN DictSet(sts, date_str, CalBooked)
    ELSE sts

\* while current_date < period_end: ... current_date += timedelta(days=1)
\* (d and cur are states and current_date at the head of the loop.)
RECURSIVE Walk(_, _, _, _, _, _)
Walk(sts, current_date, period_end, start, end, checkout_date) ==
    Bind(sts, LAMBDA d : Bind(current_date, LAMBDA cur :
        IF ~DateLess(cur, period_end) THEN d
        ELSE IF DateLess(end_date, cur) THEN d
        ELSE Walk(DayState(d, cur, start, end, checkout_date),
                  NextDay(cur), period_end, start, end, checkout_date)))

\* checkout_date = end + timedelta(days=1) raises OverflowError
PeriodRaises(period) ==
    LET startdate_str == Get(period.startdate)
        enddate_str   == Get(period.enddate)
    IN  /\ ~Falsy(startdate_str) /\ ~Falsy(enddate_str)
        /\ parse_date(startdate_str) # None
        /\ parse_date(enddate_str) # None
        /\ DateIsMax(parse_date(enddate_str))

\* Mutant: enddate is taken for the check-out day (checkout_date = end).
ProcessPeriod_EndIsCheckout(sts, period) ==
    LET startdate_str == Get(period.startdate)
        enddate_str   == Get(period.enddate)
    IN
    IF Falsy(startdate_str) \/ Falsy(enddate_str) THEN sts
    ELSE
    LET start == parse_date(startdate_str)
        end   == parse_date(enddate_str)
    IN
    IF start = None \/ end = None THEN sts
    ELSE
    LET checkout_date == end IN
    IF DateLess(end_date, start) THEN sts
    ELSE
    LET period_start == DateMax(start, start_date)
        period_end   == IF DateLeq(checkout_date, end_date)
                        THEN NextDay(checkout_date)
                        ELSE NextDay(end_date)
    IN  Walk(sts, period_start, period_end, start, end, checkout_date)

\* Mutant: the walk starts at the period's start, not clamped to start_date.
ProcessPeriod_NoClamp(sts, period) ==
    LET startdate_str == Get(period.startdate)
        enddate_str   == Get(period.enddate)
    IN
    IF Falsy(startdate_str) \/ Falsy(enddate_str) THEN sts
    ELSE
    LET start == parse_date(startdate_str)
        end   == parse_date(enddate_str)
    IN
    IF start = None \/ end = None THEN sts
    ELSE
    LET checkout_date == NextDay(end) IN
    IF DateLess(end_date, start) THEN sts
    ELSE
    LET period_start == start
        period_end   == IF DateLeq(checkout_date, end_date)
                        THEN NextDay(checkout_date)
                        ELSE NextDay(end_date)
    IN  Walk(sts, period_start, period_end, start, end, checkout_date)

\* The body of "for period_idx, period in enumerate(sorted_periods)".
ProcessPeriod(sts, period) ==
    LET startdate_str == Get(period.startdate)
        enddate_str   == Get(period.enddate)
    IN
    IF Falsy(startdate_str) \/ Falsy(enddate_str) THEN sts
    ELSE
    Bind(parse_date(startdate_str), LAMBDA start :
    Bind(parse_date(enddate_str), LAMBDA end :
    IF start = None \/ end = None THEN sts
    ELSE
    Bind(NextDay(end), LAMBDA checkout_date :
    IF DateLess(end_date, start) THEN sts
    ELSE
    LET period_start == DateMax(start, start_date)
        period_end   == IF DateLeq(checkout_date, end_date)
                        THEN NextDay(checkout_date)
                        ELSE NextDay(end_date)
    IN  Walk(sts, period_start, period_end, start, end, checkout_date))))

CalcStart ==
    /\ calc_pc = "start"
    /\ states' = EmptyDict
    /\ IF SortRaises(blocked_periods)
       THEN calc_pc' = "raised" /\ UNCHANGED <<sorted_periods, period_idx>>
       ELSE /\ sorted_periods' = Sorted(blocked_periods)
            /\ period_idx' = 1
            /\ calc_pc' = "loop"
    /\ UNCHANGED <<parse, blocked_periods, db_vars, batch_vars>>

CalcPeriod ==
    /\ calc_pc = "loop"
    /\ period_idx <= Len(sorted_periods)
    /\ IF PeriodRaises(sorted_periods[period_idx])
       THEN calc_pc' = "raised" /\ UNCHANGED <<states, period_idx>>
       ELSE /\ states' = ProcessPeriod(states, sorted_periods[period_idx])
            /\ period_idx' = period_idx + 1
            /\ UNCHANGED calc_pc
    /\ UNCHANGED <<parse, blocked_periods, sorted_periods, db_vars, batch_vars>>

CalcReturn ==
    /\ calc_pc = "loop"
    /\ period_idx > Len(sorted_periods)
    /\ calc_pc' = "returned"
    /\ UNCHANGED <<parse, blocked_periods, sorted_periods, period_idx, states, db_vars,
                   batch_vars>>

RECURSIVE CalcFrom(_, _, _)
CalcFrom(sorted, k, sts) ==
    IF k > Len(sorted) THEN sts
    ELSE CalcFrom(sorted, k + 1, ProcessPeriod(sts, sorted[k]))

\* The value calculate_states returns (when it does not raise).
calculate_states(periods) == CalcFrom(Sorted(periods), 1, EmptyDict)

-----------------------------------------------------------------------------
(* The calendar table, as the store client reads and writes it             *)

Row(cid, date, sid) == [cid |-> cid, date |-> date, sid |-> sid]

\* select('date, sid').eq('cid', cid).in_('date', batch)
StoreSelect(tbl, cid, batch) ==
    {row \in tbl : row.cid = cid /\ \E n \in 1..Len(batch) : batch[n] = row.date}

\* update({'sid': sid}).eq('cid', cid).eq('date', date)
StoreUpdate(tbl, cid, date, sid) ==
    {IF row.cid = cid /\ row.date = date THEN [row EXCEPT !.sid = sid] ELSE row :
        row \in tbl}

\* insert({'cid': cid, 'date': date, 'sid': sid})
StoreInsert(tbl, cid, date, sid) == tbl \cup {Row(cid, date, sid)}

\* The unique key (cid, date) is taken: an insert is refused with error 23505.
KeyTaken(tbl, cid, date) == \E row \in tbl : row.cid = cid /\ row.date = date

\* Mutant: the delete takes every row of the calendar, whatever its date.
StoreDelete_WholeCalendar(tbl, cid, lo, hi) == {row \in tbl : row.cid # cid}

\* delete().eq('cid', cid).gte('date', lo).lte('date', hi)
StoreDelete(tbl, cid, lo, hi) ==
    {row \in tbl : ~(/\ row.cid = cid
                    /\ ~StrLess(row.date, lo)
                    /\ ~StrLess(hi, row.date))}

-----------------------------------------------------------------------------
(* _update_database                                                        *)

Runners == {1, 2}

batch_size == 100

NoPrev == [calendar_id |-> 0, states |-> EmptyDict, clean |-> FALSE]

\* pc: "idle" | "fetch" | "write" | "fallback" | "returned"
\* ops, table0, prev: the store calls issued by the call so far, the table
\* when it began, and the call before it (history, for the properties).
IdleRun ==
    [pc |-> "idle", calendar_id |-> 0, states |-> EmptyDict, existing |-> <<>>,
     i |-> 0, k |-> 0, inserted |-> 0, updated |-> 0,
     ops |-> <<>>, table0 |-> {}, dirty |-> FALSE, prev |-> NoPrev]

Op(op, date, sid, res) == [op |-> op, date |-> date, sid |-> sid, res |-> res]

\* Mutant: the duplicate-key error is not recognised.
IsDuplicateError_Never(res) == FALSE

\* 'duplicate key' in error_str.lower() or '23505' in error_str
IsDuplicateError(res) == res = "23505"

\* Mutant: the records of the lookup are not kept.
AddExisting_Dropped(existing, rows) == existing

\* existing[record['date']] = record['sid'] for the records of one result
AddExisting(existing, rows) ==
    [x \in (DOMAIN existing) \cup {row.date : row \in rows} |->
        IF \E row \in rows : row.date = x
        THEN (CHOOSE row \in rows : row.date = x).sid
        ELSE existing[x]]

\* Mutant: the counts are carried over from the call before.
StartRun_KeepCounts(run, calendar_id, sts, tbl) ==
    [pc |-> "fetch", calendar_id |-> calendar_id, states |-> sts,
     existing |-> <<>>, i |-> 0, k |-> 1,
     inserted |-> run.inserted, updated |-> run.updated,
     ops |-> <<>>, table0 |-> tbl, dirty |-> FALSE,
     prev |-> IF run.pc = "returned"
              THEN [calendar_id |-> run.calendar_id, states |-> run.states,
                    clean |-> ~run.dirty
                              /\ \A n \in 1..Len(run.ops) : run.ops[n].res = "ok"]
              ELSE NoPrev]

\* The start of a call: inserted = updated = 0, existing = {}.
StartRun(run, calendar_id, sts, tbl) ==
    [pc |-> "fetch", calendar_id |-> calendar_id, states |-> sts,
     existing |-> <<>>, i |-> 0, k |-> 1, inserted |-> 0, updated |-> 0,
     ops |-> <<>>, table0 |-> tbl, dirty |-> FALSE,
     prev |-> IF run.pc = "returned"
              THEN [calendar_id |-> run.calendar_id, states |-> run.states,
                    clean |-> ~run.dirty
                              /\ \A n \in 1..Len(run.ops) : run.ops[n].res = "ok"]
              ELSE NoPrev]

\* for i in range(0, len(date_list), batch_size): one lookup of existing rows,
\* or the end of the lookups when the range is exhausted.
DbFetchBatch(r) ==
    LET run       == db[r]
        date_list == run.states.keys
        batch     == SubSeq(date_list, run.i + 1,
                            IF run.i + batch_size < Len(date_list)
                            THEN run.i + batch_size ELSE Len(date_list))
    IN
    /\ run.pc = "fetch"
    /\ IF run.i < Len(date_list)
       THEN \E res \in {"ok", "error"} :
               db' = [db EXCEPT ![r] =
                   [run EXCEPT
                       !.existing = IF res = "ok"
                                    THEN AddExisting(@, StoreSelect(table, run.calendar_id, batch))
                                    ELSE @,
                       !.i = @ + batch_size,
                       !.ops = Append(@, Op("select", batch, 0, res))]]
       ELSE db' = [db EXCEPT ![r] = [run EXCEPT !.pc = "write"]]
    /\ UNCHANGED <<parse, table, calls, other_writes, calc_vars, batch_vars>>

\* Mutant: an existing row is never updated.
NeedsUpdate_Never(existing_sid, sid) == FALSE

\* Mutant: every existing row is updated, changed or not.
NeedsUpdate_Always(existing_sid, sid) == TRUE

\* existing[date_str] != sid
NeedsUpdate(existing_sid, sid) == existing_sid # sid

\* Mutant: a failed update ends the loop over the dates.
AfterUpdate_AbortOnError(run, date_str, sid, res) ==
    [run EXCEPT
        !.updated = IF res = "ok" THEN @ + 1 ELSE @,
        !.pc = "write",
        !.k = IF res = "ok" THEN @ + 1 ELSE Len(run.states.keys) + 1,
        !.ops = Append(@, Op("update", date_str, sid, res))]

\* The locals after an update call returned res: updated += 1 unless it
\* raised, and the loop goes on to the next date.
AfterUpdate(run, date_str, sid, res) ==
    [run EXCEPT
        !.updated = IF res = "ok" THEN @ + 1 ELSE @,
        !.pc = "write",
        !.k = @ + 1,
        !.ops = Append(@, Op("update", date_str, sid, res))]

\* Mutant: an insert refused as a duplicate is counted as an insert.
AfterInsert_CountDuplicate(run, date_str, sid, res) ==
    [run EXCEPT
        !.inserted = IF res = "ok" \/ IsDuplicateError(res) THEN @ + 1 ELSE @,
        !.pc = IF res # "ok" /\ IsDuplicateError(res) THEN "fallback" ELSE @,
        !.k = IF res # "ok" /\ IsDuplicateError(res) THEN @ ELSE @ + 1,
        !.ops = Append(@, Op("insert", date_str, sid, res))]

\* The locals after an insert call returned res: inserted += 1 unless it
\* raised; a duplicate-key error leads to the update, any other error to
\* the next date.
AfterInsert(run, date_str, sid, res) ==
    [run EXCEPT
        !.inserted = IF res = "ok" THEN @ + 1 ELSE @,
        !.pc = IF res # "ok" /\ IsDuplicateError(res) THEN "fallback" ELSE @,
        !.k = IF res # "ok" /\ IsDuplicateError(res) THEN @ ELSE @ + 1,
        !.ops = Append(@, Op("insert", date_str, sid, res))]

\* for date_str, sid in states.items(): one iteration, up to its first store call.
DbWrite(r) ==
    LET run      == db[r]
        date_str == run.states.keys[run.k]
        sid      == run.states.val[date_str]
        cid      == run.calendar_id
    IN
    /\ run.pc = "write"
    /\ run.k <= Len(run.states.keys)
    /\ IF date_str \in DOMAIN run.existing
       THEN IF NeedsUpdate(run.existing[date_str], sid)
            THEN \E res \in {"ok", "error"} :
                    /\ table' = IF res = "ok"
                                THEN StoreUpdate(table, cid, date_str, sid)
                                ELSE table
                    /\ db' = [db EXCEPT ![r] = AfterUpdate(run, date_str, sid, res)]
            ELSE /\ db' = [db EXCEPT ![r] = [run EXCEPT !.k = @ + 1]]
                 /\ UNCHANGED table
       ELSE \E res \in {IF KeyTaken(table, cid, date_str) THEN "23505" ELSE "ok",
                        "error"} :
               /\ table' = IF res = "ok"
                           THEN StoreInsert(table, cid, date_str, sid)
                           ELSE table
               /\ db' = [db EXCEPT ![r] = AfterInsert(run, date_str, sid, res)]
    /\ UNCHANGED <<parse, calls, other_writes, calc_vars, batch_vars>>

\* The update that follows an insert refused as a duplicate.
DbFallback(r) ==
    LET run      == db[r]
        date_str == run.states.keys[run.k]
        sid      == run.states.val[date_str]
    IN
    /\ run.pc = "fallback"
    /\ \E res \in {"ok", "error"} :
          /\ table' = IF res = "ok"
                      THEN StoreUpdate(table, run.calendar_id, date_str, sid)
                      ELSE table
          /\ db' = [db EXCEPT ![r] = AfterUpdate(run, date_str, sid, res)]
    /\ UNCHANGED <<parse, calls, other_writes, calc_vars, batch_vars>>

\* return (inserted, updated)
DbReturn(r) ==
    /\ db[r].pc = "write"
    /\ db[r].k > Len(db[r].states.keys)
    /\ db' = [db EXCEPT ![r].pc = "returned"]
    /\ UNCHANGED <<parse, table, calls, other_writes, calc_vars, batch_vars>>

-----------------------------------------------------------------------------
(* Inputs of the batch: cabin mappings and PMS responses                   *)

MaxCabins == 2

\* Mappings: two cabins with their calendars, and one without calendar_id.
CabinPool == {
    [calendar_id |-> 1, streamline_id |-> 101],
    [calendar_id |-> 2, streamline_id |-> 102],
    [calendar_id |-> 0, streamline_id |-> 103] }

Response(kind, bp) == [kind |-> kind, bp |-> bp]

\* The outcomes of one fetch: the errors, and responses that carry no
\* blocked period, a "data": null, one blocked_period object (with and without
\* startdate) and blocked_period lists - a stay entirely in 2025, one- and
\* two-night stays in June, a later one-night stay, and a list whose first
\* startdate is null.
FetchOutcomes == {
    Response("http_error", <<>>),
    Response("request_error", <<>>),
    Response("unexpected_error", <<>>),
    Response("not_found", <<>>),
    Response("api_error", <<>>),
    Response("empty", <<>>),
    Response("no_blocked_period", <<>>),
    Response("data_null", <<>>),
    Response("bp_object", <<[startdate |-> Fmt(<<2026, 6, 10>>, 1),
                             enddate |-> Fmt(<<2026, 6, 10>>, 1)]>>),
    Response("bp_object", <<[startdate |-> Absent, enddate |-> Absent]>>),
    Response("bp_list", <<[startdate |-> Fmt(<<2025, 12, 28>>, 1),
                           enddate |-> Fmt(<<2025, 12, 30>>, 1)]>>),
    Response("bp_list", <<[startdate |-> Fmt(<<2026, 6, 10>>, 1),
                           enddate |-> Fmt(<<2026, 6, 11>>, 1)]>>),
    Response("bp_list", <<[startdate |-> Fmt(<<2026, 6, 13>>, 1),
                           enddate |-> Fmt(<<2026, 6, 13>>, 1)]>>),
    Response("bp_list", <<[startdate |-> None, enddate |-> None],
                          [startdate |-> Fmt(<<2026, 6, 10>>, 1),
                           enddate |-> Fmt(<<2026, 6, 10>>, 1)]>>) }

-----------------------------------------------------------------------------
(* run and update_cabin_availability                                       *)

\* The None that fetch_streamline_availability returns.
NoResponse == [kind |-> "None", bp |-> <<>>]

NoCabin == [availability_data |-> NoResponse, blocked_periods |-> <<>>,
            deleted |-> "no", result |-> <<0, 0>>]

ZeroTotals == [total_inserted |-> 0, total_updated |-> 0,
               successful |-> 0, skipped |-> 0, failed |-> 0]

\* "not calendar_id or not streamline_id": None and 0 are both falsy.
MissingId(c) == c.calendar_id = 0 \/ c.streamline_id = 0

\* Mutant: a failed fetch is answered like a response without blocked periods.
FetchResult_ErrorAsAvailable(outcome) ==
    IF outcome.kind \in {"http_error", "request_error", "unexpected_error",
                         "not_found", "api_error"}
    THEN Response("no_blocked_period", <<>>)
    ELSE outcome

\* What fetch_streamline_availability returns: None after an HTTP status
\* error, a request error or timeout, any other exception, or an API status
\* with a non-zero code (not found or another error); otherwise the decoded
\* response.
FetchResult(outcome) ==
    IF outcome.kind \in {"http_error", "request_error", "unexpected_error",
                         "not_found", "api_error"}
    THEN NoResponse
    ELSE outcome

\* "not availability_data": None, or an empty response object.
NoData(availability_data) ==
    availability_data = NoResponse \/ availability_data.kind = "empty"

\* data = availability_data.get('data', {}); 'blocked_period' in data
\* raises TypeError when the response carries "data": null.
ExtractRaises(availability_data) == availability_data.kind = "data_null"

\* The blocked_periods list built from data['blocked_period']: a single
\* object is taken when it has a startdate, a list is taken whole.
ExtractPeriods(availability_data) ==
    IF availability_data.kind = "bp_object"
    THEN (IF availability_data.bp[1].startdate # Absent
          THEN availability_data.bp ELSE <<>>)
    ELSE IF availability_data.kind = "bp_list" THEN availability_data.bp
    ELSE <<>>

\* Mutant: no except clause around the call, the exception ends the loop.
AfterException_Abort(i) == [run_pc |-> "done", cabin_i |-> i]

\* Where run goes after update_cabin_availability raised: the except clause
\* counts the failure and the loop continues.
AfterException(i) == [run_pc |-> "loop", cabin_i |-> i + 1]

\* asyncio.run(main()) reaches "for i, cabin in enumerate(cabins, 1)", or
\* returns at once when there are no cabins.
RunStart ==
    /\ run_pc = "start"
    /\ IF cabins = <<>>
       THEN run_pc' = "done" /\ UNCHANGED cabin_i
       ELSE run_pc' = "loop" /\ cabin_i' = 1
    /\ totals' = ZeroTotals
    /\ UNCHANGED <<parse, cabins, cabin, visited, calc_vars, db_vars>>

\* The head of the loop body: a mapping without calendar_id or streamline_id
\* is skipped, any other goes to update_cabin_availability.
CabinBegin ==
    /\ run_pc = "loop"
    /\ cabin_i <= Len(cabins)
    /\ visited' = Append(visited, cabin_i)
    /\ cabin' = NoCabin
    /\ IF MissingId(cabins[cabin_i])
       THEN /\ totals' = [totals EXCEPT !.skipped = @ + 1]
            /\ cabin_i' = cabin_i + 1
            /\ UNCHANGED run_pc
       ELSE /\ run_pc' = "fetch"
            /\ UNCHANGED <<totals, cabin_i>>
    /\ UNCHANGED <<parse, cabins, calc_vars, db_vars>>

\* availability_data = await self.fetch_streamline_availability(streamline_id)
CabinFetch ==
    /\ run_pc = "fetch"
    /\ \E outcome \in FetchOutcomes :
          cabin' = [cabin EXCEPT !.availability_data = FetchResult(outcome)]
    /\ run_pc' = "extract"
    /\ UNCHANGED <<parse, cabins, cabin_i, totals, visited, calc_vars, db_vars>>

\* From "if not availability_data" to the call of calculate_states.
CabinExtract ==
    /\ run_pc = "extract"
    /\ IF NoData(cabin.availability_data)
       THEN /\ cabin' = [cabin EXCEPT !.result = <<0, 0>>]
            /\ run_pc' = "account"
            /\ UNCHANGED calc_vars
       ELSE IF ExtractRaises(cabin.availability_data)
       THEN /\ run_pc' = "raised"
            /\ UNCHANGED <<cabin, calc_vars>>
       ELSE LET bps == ExtractPeriods(cabin.availability_data) IN
            /\ cabin' = [cabin EXCEPT !.blocked_periods = bps]
            /\ IF bps = <<>>
               THEN run_pc' = "delete" /\ UNCHANGED calc_vars
               ELSE /\ run_pc' = "in_calc"
                    /\ blocked_periods' = bps
                    /\ sorted_periods' = <<>>
                    /\ period_idx' = 0
                    /\ states' = EmptyDict
                    /\ calc_pc' = "start"
    /\ UNCHANGED <<parse, cabins, cabin_i, totals, visited, db_vars>>

\* self._delete_2026_availability(calendar_id); return (0, 0)
CabinDelete ==
    /\ run_pc = "delete"
    /\ \E res \in {"ok", "error"} :
          /\ table' = IF res = "ok"
                      THEN StoreDelete(table, cabins[cabin_i].calendar_id,
                                       StrfIso(start_date), StrfIso(end_date))
                      ELSE table
          /\ cabin' = [cabin EXCEPT !.deleted = res, !.result = <<0, 0>>]
    /\ run_pc' = "account"
    /\ UNCHANGED <<parse, cabins, cabin_i, totals, visited, calc_vars, db, calls,
                   other_writes>>

\* Mutant: the rows are reconciled without waiting for calculate_states.
CabinAfterCalc_Early ==
    /\ run_pc = "in_calc"
    /\ IF calc_pc = "raised"
       THEN /\ run_pc' = "raised"
            /\ UNCHANGED <<cabin, db>>
       ELSE IF states = EmptyDict
       THEN /\ cabin' = [cabin EXCEPT !.result = <<0, 0>>]
            /\ run_pc' = "account"
            /\ UNCHANGED db
       ELSE /\ db' = [db EXCEPT ![1] =
                         StartRun(db[1], cabins[cabin_i].calendar_id, states, table)]
            /\ run_pc' = "in_db"
            /\ UNCHANGED cabin
    /\ UNCHANGED <<parse, cabins, cabin_i, totals, visited, calc_vars, table, calls,
                   other_writes>>

\* calculate_states has returned or raised: "if not states: return (0, 0)",
\* else the call of _update_database.
CabinAfterCalc ==
    /\ run_pc = "in_calc"
    /\ calc_pc \in {"returned", "raised"}
    /\ IF calc_pc = "raised"
       THEN /\ run_pc' = "raised"
            /\ UNCHANGED <<cabin, db>>
       ELSE IF states = EmptyDict
       THEN /\ cabin' = [cabin EXCEPT !.result = <<0, 0>>]
            /\ run_pc' = "account"
            /\ UNCHANGED db
       ELSE /\ db' = [db EXCEPT ![1] =
                         StartRun(db[1], cabins[cabin_i].calendar_id, states, table)]
            /\ run_pc' = "in_db"
            /\ UNCHANGED cabin
    /\ UNCHANGED <<parse, cabins, cabin_i, totals, visited, calc_vars, table, calls,
                   other_writes>>

\* inserted, updated = self._update_database(calendar_id, states)
CabinAfterDb ==
    /\ run_pc = "in_db"
    /\ db[1].pc = "returned"
    /\ cabin' = [cabin EXCEPT !.result = <<db[1].inserted, db[1].updated>>]
    /\ run_pc' = "account"
    /\ UNCHANGED <<parse, cabins, cabin_i, totals, visited, calc_vars, db_vars>>

\* Mutant: a property that returned (0, 0) is counted nowhere.
CabinAccount_ZeroUncounted ==
    /\ run_pc = "account"
    /\ LET inserted == cabin.result[1]
           updated  == cabin.result[2]
       IN  totals' = IF inserted = 0 /\ updated = 0
                     THEN totals
                     ELSE [totals EXCEPT !.total_inserted = @ + inserted,
                                         !.total_updated = @ + updated,
                                         !.successful = @ + 1]
    /\ cabin_i' = cabin_i + 1
    /\ run_pc' = "loop"
    /\ UNCHANGED <<parse, cabins, cabin, visited, calc_vars, db_vars>>

\* run, after update_cabin_availability returned (inserted, updated).
CabinAccount ==
    /\ run_pc = "account"
    /\ LET inserted == cabin.result[1]
           updated  == cabin.result[2]
       IN  totals' = IF inserted = 0 /\ updated = 0
                     THEN [totals EXCEPT !.skipped = @ + 1]
                     ELSE [totals EXCEPT !.total_inserted = @ + inserted,
                                         !.total_updated = @ + updated,
                                         !.successful = @ + 1]
    /\ cabin_i' = cabin_i + 1
    /\ run_pc' = "loop"
    /\ UNCHANGED <<parse, cabins, cabin, visited, calc_vars, db_vars>>

\* run, after update_cabin_availability raised: except Exception.
CabinFailed ==
    /\ run_pc = "raised"
    /\ totals' = [totals EXCEPT !.failed = @ + 1]
    /\ cabin_i' = AfterException(cabin_i).cabin_i
    /\ run_pc' = AfterException(cabin_i).run_pc
    /\ UNCHANGED <<parse, cabins, cabin, visited, calc_vars, db_vars>>

\* The loop is exhausted: the summary is printed and run returns.
RunSummary ==
    /\ run_pc = "loop"
    /\ cabin_i > Len(cabins)
    /\ run_pc' = "done"
    /\ UNCHANGED <<parse, cabins, cabin_i, cabin, totals, visited, calc_vars, db_vars>>

-----------------------------------------------------------------------------
(* Inputs of calculate_states: period dicts as the PMS can send them       *)

MaxPeriods == 2

PeriodPool == {
    Period(<<2026, 2, 1>>, <<2026, 2, 7>>, 1),
    Period(<<2026, 2, 7>>, <<2026, 2, 10>>, 1),
    Period(<<2026, 2, 8>>, <<2026, 2, 10>>, 1),
    Period(<<2026, 2, 1>>, <<2026, 2, 7>>, 2),
    Period(<<2026, 2, 7>>, <<2026, 2, 10>>, 2),
    Period(<<2026, 2, 8>>, <<2026, 2, 10>>, 3),
    Period(<<2026, 1, 1>>, <<2026, 1, 1>>, 1),
    Period(<<2025, 12, 30>>, <<2026, 1, 2>>, 1),
    Period(<<2026, 1, 3>>, <<2026, 1, 4>>, 1),
    Period(<<2025, 12, 30>>, <<2026, 1, 2>>, 2),
    Period(<<2026, 1, 3>>, <<2026, 1, 4>>, 2),
    Period(<<2026, 6, 10>>, <<2026, 6, 12>>, 1),
    Period(<<2026, 6, 13>>, <<2026, 6, 13>>, 3),
    Period(<<2025, 12, 28>>, <<2025, 12, 30>>, 1),
    Period(<<2025, 12, 29>>, <<2025, 12, 31>>, 1),
    Period(<<2027, 1, 1>>, <<2027, 1, 3>>, 1),
    Period(<<2026, 12, 30>>, <<2026, 12, 30>>, 4),
    Period(<<2026, 12, 30>>, <<2027, 1, 2>>, 1),
    Period(<<2026, 12, 31>>, <<2026, 12, 31>>, 2),
    Period(<<2026, 12, 31>>, <<2026, 12, 31>>, 4),
    Period(<<2026, 2, 8>>, <<2026, 2, 7>>, 1),
    Period(<<2026, 2, 10>>, <<2026, 2, 1>>, 1),
    [startdate |-> Fmt(<<2026, 2, 30>>, 1), enddate |-> Fmt(<<2026, 3, 2>>, 1)],
    [startdate |-> None, enddate |-> Fmt(<<2026, 6, 12>>, 1)],
    [startdate |-> Fmt(<<2026, 6, 10>>, 1), enddate |-> Absent],
    Period(<<2026, 6, 10>>, <<9999, 12, 31>>, 1) }

SeqsUpTo(S, n) == UNION {[1..k -> S] : k \in 0..n}

IdleCalc ==
    /\ blocked_periods = <<>>
    /\ sorted_periods = <<>>
    /\ period_idx = 0
    /\ states = EmptyDict
    /\ calc_pc = "idle"

IdleDb ==
    /\ table = {}
    /\ db = [r \in Runners |-> IdleRun]
    /\ calls = 0
    /\ other_writes = 0

NextCalc == CalcStart \/ CalcPeriod \/ CalcReturn

IdleBatch ==
    /\ cabins = <<>>
    /\ cabin_i = 0
    /\ run_pc = "idle"
    /\ cabin = NoCabin
    /\ totals = ZeroTotals
    /\ visited = <<>>

InitCalc ==
    /\ blocked_periods \in SeqsUpTo(PeriodPool, MaxPeriods)
    /\ sorted_periods = <<>>
    /\ period_idx = 0
    /\ states = EmptyDict
    /\ calc_pc = "start"
    /\ IdleDb
    /\ IdleBatch
    /\ IdleParse

SpecCalc == InitCalc /\ [][NextCalc]_vars

-----------------------------------------------------------------------------
(* parse_date called on its own                                            *)

\* A number as it is written without padding.
Unpadded(n) == IF n < 10 THEN <<Ch0 + n>> ELSE <<Ch0 + (n \div 10), Ch0 + (n % 10)>>

\* The years of the dates written out in full below: a leap year and 2026.
ParseYears == {2024, 2026}

\* Every date of those years, and the first and the last date there is.
ParseDates ==
    {dt \in ParseYears \X (1..12) \X (1..31) : ValidDate(dt[1], dt[2], dt[3])}
    \cup {<<1, 1, 1>>, <<MAXYEAR, 12, 31>>}

\* Fields of a date string: months and days in and out of range, padded
\* and not, a space-padded day, an empty field, years of two and four digits.
ParseFields ==
    {Unpadded(n) : n \in {0, 1, 2, 12, 13, 29, 30, 31, 32}}
    \cup {Pad2(n) : n \in {0, 1, 2, 26}}
    \cup {Pad4(y) : y \in ParseYears}
    \cup {<<ChSpace, Ch0 + 1>>, <<>>}

\* The strings handed to parse_date: every date in each of the four formats,
\* three fields under either separator, and strings of another shape.
ParseInputs ==
    {Fmt(dt, k) : dt \in ParseDates, k \in 1..4}
    \cup {f1 \o <<sep>> \o f2 \o <<sep>> \o f3 :
              f1 \in ParseFields, f2 \in ParseFields, f3 \in ParseFields,
              sep \in {ChSlash, ChDash}}
    \cup {<<>>, Pad4(2026), Pad2(6) \o <<ChSlash>> \o Pad4(2026),
          Pad2(6) \o <<ChSlash>> \o Pad2(10) \o <<ChDash>> \o Pad4(2026),
          Fmt(<<2026, 6, 10>>, 1) \o <<ChSpace>>,
          Fmt(<<2026, 6, 10>>, 2) \o <<ChDash>> \o Pad2(1)}

InitParse ==
    /\ IdleCalc
    /\ IdleDb
    /\ IdleBatch
    /\ \E date_str \in ParseInputs :
          parse = [pc |-> "loop", date_str |-> date_str, k |-> 1, result |-> None]

NextParse == ParseTry \/ ParseFail

SpecParse == InitParse /\ [][NextParse]_vars

-----------------------------------------------------------------------------
(* _update_database called on its own, beside another client of the table  *)

MaxCalls == 2

MaxOtherWrites == 1

\* Computed maps over the same few days: a one-night stay, a two-night stay,
\* and no stay.
StatesPool == {
    calculate_states(<<Period(<<2026, 6, 10>>, <<2026, 6, 10>>, 1)>>),
    calculate_states(<<Period(<<2026, 6, 10>>, <<2026, 6, 11>>, 1)>>),
    EmptyDict }

PoolDates == UNION {DOMAIN sts.val : sts \in StatesPool}

\* Rows left by earlier runs, of this year and of the years beside it.
InitialTables == {
    {},
    {Row(1, Iso(2026, 6, 11), CalBooked), Row(2, Iso(2026, 6, 10), CalIn),
     Row(1, Iso(2025, 12, 31), CalOut), Row(1, Iso(2027, 1, 1), CalIn)} }

InitDb ==
    /\ IdleCalc
    /\ table \in InitialTables
    /\ db = [r \in Runners |-> IdleRun]
    /\ calls = 0
    /\ other_writes = 0
    /\ IdleBatch
    /\ IdleParse

\* A caller invokes _update_database(calendar_id, states).
DbCall(r) ==
    /\ db[r].pc \in {"idle", "returned"}
    /\ calls < MaxCalls
    /\ \E sts \in StatesPool :
          db' = [db EXCEPT ![r] = StartRun(db[r], 1, sts, table)]
    /\ calls' = calls + 1
    /\ UNCHANGED <<parse, table, other_writes, calc_vars, batch_vars>>

\* Another client inserts, changes or deletes one row.
OtherWrite ==
    /\ other_writes < MaxOtherWrites
    /\ \E date \in PoolDates :
          IF KeyTaken(table, 1, date)
          THEN \/ table' = StoreUpdate(table, 1, date, CalBooked)
               \/ table' = StoreDelete(table, 1, date, date)
          ELSE table' = StoreInsert(table, 1, date, CalBooked)
    /\ db' = [r \in Runners |-> [db[r] EXCEPT !.dirty = TRUE]]
    /\ other_writes' = other_writes + 1
    /\ UNCHANGED <<parse, calls, calc_vars, batch_vars>>

NextDb ==
    \/ DbCall(1)
    \/ DbFetchBatch(1)
    \/ DbWrite(1)
    \/ DbFallback(1)
    \/ DbReturn(1)
    \/ OtherWrite

SpecDb == InitDb /\ [][NextDb]_vars

-----------------------------------------------------------------------------
(* The batch run                                                           *)

\* Lists of up to n rows of the cabins table, a row at most once.
SeqsOver(S, n) ==
    {seq \in UNION {[1..k -> S] : k \in 0..n} :
        \A i, j \in DOMAIN seq : seq[i] = seq[j] => i = j}

InitBatch ==
    /\ IdleCalc
    /\ table \in InitialTables
    /\ db = [r \in Runners |-> IdleRun]
    /\ calls = 0
    /\ other_writes = 0
    /\ cabins \in SeqsOver(CabinPool, MaxCabins)
    /\ cabin_i = 0
    /\ run_pc = "start"
    /\ cabin = NoCabin
    /\ totals = ZeroTotals
    /\ visited = <<>>
    /\ IdleParse

NextBatch ==
    \/ RunStart
    \/ CabinBegin
    \/ CabinFetch
    \/ CabinExtract
    \/ CabinDelete
    \/ CalcStart
    \/ CalcPeriod
    \/ CalcReturn
    \/ CabinAfterCalc
    \/ DbFetchBatch(1)
    \/ DbWrite(1)
    \/ DbFallback(1)
    \/ DbReturn(1)
    \/ CabinAfterDb
    \/ CabinAccount
    \/ CabinFailed
    \/ RunSummary

SpecBatch == InitBatch /\ [][NextBatch]_vars

\* run is one coroutine under asyncio.run: it keeps executing, the fetch has
\* a 30 s timeout and every store call returns or raises, so a step that can
\* be taken is eventually taken.
SpecBatchFair == SpecBatch /\ WF_vars(NextBatch)

-----------------------------------------------------------------------------
(* Two runs of _update_database at once, for one calendar and one map      *)

\* The maps of a one-night and of a two-night stay.
RaceMaps == StatesPool \ {EmptyDict}

\* Both runs have been called, with the same arguments, and no row exists
\* for the calendar.
InitRace ==
    /\ IdleCalc
    /\ IdleBatch
    /\ IdleParse
    /\ table \in {{}, {Row(2, Iso(2026, 6, 10), CalIn)}}
    /\ \E sts \in RaceMaps :
          db = [r \in Runners |-> StartRun(IdleRun, 1, sts, table)]
    /\ calls = 0
    /\ other_writes = 0

\* One store call, or the return, of run r.
RunnerStep(r) == DbFetchBatch(r) \/ DbWrite(r) \/ DbFallback(r) \/ DbReturn(r)

NextRace == RunnerStep(1) \/ RunnerStep(2)

SpecRace == InitRace /\ [][NextRace]_vars

\* Each run is a process of its own that keeps executing: every store call
\* returns or raises, so a run with a step to take takes it.
SpecRaceFair == SpecRace /\ WF_vars(RunnerStep(1)) /\ WF_vars(RunnerStep(2))

-----------------------------------------------------------------------------
(* Properties of calculate_states                                          *)

\* The period's two dates can be read.
Parsable(p) ==
    /\ ~Falsy(Get(p.startdate)) /\ ~Falsy(Get(p.enddate))
    /\ parse_date(Get(p.startdate)) # None
    /\ parse_date(Get(p.enddate)) # None

PStart(p) == parse_date(Get(p.startdate))
PEnd(p) == parse_date(Get(p.enddate))

\* The calendar dates the inputs can mention.
Dates == {dt \in (2025..2027) \X (1..12) \X (1..31) : ValidDate(dt[1], dt[2], dt[3])}

DatesFromTo(a, b) == {dt \in Dates : DateLeq(a, dt) /\ DateLeq(dt, b)}

\* The two periods of the turn-over example, in either input order.
IsFebExample(bp) ==
    /\ Len(bp) = 2
    /\ \A k \in 1..2 : Parsable(bp[k])
    /\ \E i, j \in 1..2 :
        /\ i # j
        /\ PStart(bp[i]) = <<2026, 2, 1>> /\ PEnd(bp[i]) = <<2026, 2, 7>>
        /\ PStart(bp[j]) = <<2026, 2, 7>> /\ PEnd(bp[j]) = <<2026, 2, 10>>

\* 02-01 check-in, 02-02..02-06 booked, 02-07 as given, 02-08..02-10 booked,
\* 02-11 check-out.
FebMap(sid7) ==
    [x \in {Iso(2026, 2, d) : d \in 1..11} |->
        IF x = Iso(2026, 2, 1) THEN CalIn
        ELSE IF x = Iso(2026, 2, 7) THEN sid7
        ELSE IF x = Iso(2026, 2, 11) THEN CalOut
        ELSE CalBooked]

\* C1 as stated: for the periods 02-01..02-07 and 02-07..02-10 the result has
\* 02-07 as TURN_AROUND (and 02-01 check-in, the nights booked, 02-11
\* check-out).
C1_FebTurnAround ==
    (calc_pc = "returned" /\ IsFebExample(blocked_periods))
        => states.val = FebMap(CalInOut)

\* C1 amended: with the two periods visited in start-date order, 02-07 (the
\* last night of the first stay and the start of the second) is CHECK_IN;
\* the other dates are as stated.
C1_FebCheckIn ==
    (/\ calc_pc = "returned"
     /\ IsFebExample(blocked_periods)
     /\ PStart(sorted_periods[1]) = <<2026, 2, 1>>)
        => states.val = FebMap(CalIn)

C1_Witness ==
    /\ calc_pc = "returned"
    /\ blocked_periods = <<Period(<<2026, 2, 1>>, <<2026, 2, 7>>, 1),
                           Period(<<2026, 2, 7>>, <<2026, 2, 10>>, 1)>>
    /\ states.val[Iso(2026, 2, 7)] = CalIn
    /\ states.val[Iso(2026, 2, 11)] = CalOut

\* The period touches the date: it lies between its start and its check-out.
Touches(p, dt) ==
    /\ Parsable(p)
    /\ DateLeq(PStart(p), dt) /\ DateLeq(dt, NextDay(PEnd(p)))

\* C2: whenever period j starts on the check-out day of an earlier-starting
\* period i, that day is in the range and no third period touches it, the
\* day is TURN_AROUND in the result, whatever the input order and formats.
C2_TurnAround ==
    calc_pc = "returned" =>
        \A i, j \in 1..Len(blocked_periods) :
            LET A == blocked_periods[i]
                B == blocked_periods[j]
            IN  (/\ i # j
                 /\ Parsable(A) /\ Parsable(B)
                 /\ DateLess(PStart(A), PStart(B))
                 /\ PStart(B) = NextDay(PEnd(A))
                 /\ DateLeq(start_date, PStart(B)) /\ DateLeq(PStart(B), end_date)
                 /\ \A k \in 1..Len(blocked_periods) :
                        k \in {i, j} \/ ~Touches(blocked_periods[k], PStart(B)))
                => /\ DictHas(states, StrfIso(PStart(B)))
                   /\ states.val[StrfIso(PStart(B))] = CalInOut

\* What one period s..e inside the range yields: s check-in, the later
\* nights booked, the day after e check-out.
SingleMap(s, e) ==
    [x \in {StrfIso(dt) : dt \in DatesFromTo(s, NextDay(e))} |->
        IF x = StrfIso(s) THEN CalIn
        ELSE IF x = StrfIso(NextDay(e)) THEN CalOut
        ELSE CalBooked]

\* C3: a single period s..e with s <= e, start_date <= s and e + 1 <= end_date
\* yields exactly s = CHECK_IN, s < d <= e BOOKED, e + 1 = CHECK_OUT.
C3_SinglePeriod ==
    (/\ calc_pc = "returned"
     /\ Len(blocked_periods) = 1
     /\ Parsable(blocked_periods[1])
     /\ DateLeq(PStart(blocked_periods[1]), PEnd(blocked_periods[1]))
     /\ DateLeq(start_date, PStart(blocked_periods[1]))
     /\ DateLeq(NextDay(PEnd(blocked_periods[1])), end_date))
        => states.val = SingleMap(PStart(blocked_periods[1]), PEnd(blocked_periods[1]))

C3_Witness ==
    /\ calc_pc = "returned"
    /\ blocked_periods = <<Period(<<2026, 6, 10>>, <<2026, 6, 12>>, 1)>>
    /\ states.keys = <<Iso(2026, 6, 10), Iso(2026, 6, 11), Iso(2026, 6, 12),
                       Iso(2026, 6, 13)>>
    /\ states.val[Iso(2026, 6, 10)] = CalIn
    /\ states.val[Iso(2026, 6, 11)] = CalBooked
    /\ states.val[Iso(2026, 6, 12)] = CalBooked
    /\ states.val[Iso(2026, 6, 13)] = CalOut

\* The loop is about to process this period.
AtPeriod(p) ==
    /\ calc_pc = "loop"
    /\ period_idx <= Len(sorted_periods)
    /\ sorted_periods[period_idx] = p

\* C4 as stated: a period that ends before start_date, or starts after
\* end_date, adds nothing to the map.
C4_OutOfRange ==
    [][\A p \in PeriodPool :
        (/\ AtPeriod(p)
         /\ Parsable(p)
         /\ DateLeq(PStart(p), PEnd(p))
         /\ \/ DateLess(PEnd(p), start_date)
            \/ DateLess(end_date, PStart(p)))
        => states' = states]_vars

\* C4 amended: a period whose check-out day (end + 1) is before start_date,
\* or that starts after end_date, adds nothing to the map.
C4_CheckoutOutOfRange ==
    [][\A p \in PeriodPool :
        (/\ AtPeriod(p)
         /\ Parsable(p)
         /\ \/ DateLess(NextDay(PEnd(p)), start_date)
            \/ DateLess(end_date, PStart(p)))
        => states' = states]_vars

C4_Witness ==
    /\ calc_pc = "returned"
    /\ blocked_periods = <<Period(<<2025, 12, 28>>, <<2025, 12, 30>>, 1),
                           Period(<<2027, 1, 1>>, <<2027, 1, 3>>, 1)>>
    /\ states = EmptyDict

-----------------------------------------------------------------------------
(* Properties of _update_database                                          *)

IsWrite(o) == o.op \in {"insert", "update"}

\* The positions in the log of the writes of kind op that succeeded.
OkOps(ops, op) == {n \in 1..Len(ops) : ops[n].op = op /\ ops[n].res = "ok"}

\* The positions in the log of the writes issued for date.
WritesFor(ops, date) == {n \in 1..Len(ops) : IsWrite(ops[n]) /\ ops[n].date = date}

\* So far no store call of the run raised and no other client wrote.
Clean(run) == ~run.dirty /\ \A n \in 1..Len(run.ops) : run.ops[n].res = "ok"

\* C6: a call that directly follows a call with the same calendar_id and the
\* same computed map, with no store error and no other writer in either,
\* issues no insert and no update, and its counts stay (0, 0).
C6_Idempotent ==
    \A r \in Runners :
        (/\ db[r].pc \in {"fetch", "write", "fallback", "returned"}
         /\ db[r].prev.clean
         /\ db[r].prev.calendar_id = db[r].calendar_id
         /\ db[r].prev.states = db[r].states
         /\ Clean(db[r]))
            => /\ \A n \in 1..Len(db[r].ops) : ~IsWrite(db[r].ops[n])
               /\ db[r].inserted = 0
               /\ db[r].updated = 0

C6_Witness ==
    /\ db[1].pc = "returned"
    /\ db[1].prev.clean
    /\ db[1].prev.calendar_id = db[1].calendar_id
    /\ db[1].prev.states = db[1].states
    /\ Clean(db[1])
    /\ Len(db[1].states.keys) = 3
    /\ table = {Row(1, Iso(2026, 6, 10), CalIn), Row(1, Iso(2026, 6, 11), CalBooked),
                Row(1, Iso(2026, 6, 12), CalOut)}

\* C7, the state of a run: an insert refused as a duplicate is followed by
\* the update of the same date to the same state, and by nothing else.
ConflictLeadsToUpdate(run) ==
    \A n \in 1..Len(run.ops) :
        (run.ops[n].op = "insert" /\ run.ops[n].res = "23505") =>
            IF n = Len(run.ops)
            THEN /\ run.pc = "fallback"
                 /\ run.states.keys[run.k] = run.ops[n].date
            ELSE /\ run.ops[n + 1].op = "update"
                 /\ run.ops[n + 1].date = run.ops[n].date
                 /\ run.ops[n + 1].sid = run.ops[n].sid

\* C7, the step of the update after a conflict: it writes the computed state
\* of that date, the run goes on with the next date, and when the update
\* succeeds the date is counted under updated and not under inserted.
ConflictStep(r) ==
    LET run  == db[r]
        run2 == db'[r]
        date == run.states.keys[run.k]
        last == run2.ops[Len(run2.ops)]
    IN  (run.pc = "fallback" /\ run2 # [run EXCEPT !.dirty = run2.dirty]) =>
            /\ Len(run2.ops) = Len(run.ops) + 1
            /\ last.op = "update" /\ last.date = date /\ last.sid = run.states.val[date]
            /\ run2.pc = "write" /\ run2.k = run.k + 1
            /\ run2.inserted = run.inserted
            /\ last.res = "ok" =>
                  /\ run2.updated = run.updated + 1
                  /\ table' = StoreUpdate(table, run.calendar_id, date,
                                          run.states.val[date])

\* C7: conflict recovery.
C7_ConflictRecovery ==
    /\ [](\A r \in Runners : ConflictLeadsToUpdate(db[r]))
    /\ [][\A r \in Runners : ConflictStep(r)]_vars

\* A run met a conflict on a date it had found no row for, updated it and
\* counted it.
C7_Witness ==
    /\ db[1].pc = "returned"
    /\ db[1].existing = <<>>
    /\ Len(db[1].ops) >= 3
    /\ db[1].ops[2].op = "insert" /\ db[1].ops[2].res = "23505"
    /\ db[1].ops[3].op = "update" /\ db[1].ops[3].res = "ok"
    /\ db[1].updated >= 1

\* C8: in a run with no store error and no other writer, each date of the
\* map gets exactly one insert when the table had no row for it, exactly one
\* update when its row had another state, and no write when its row had the
\* same state; inserted and updated count the dates of the first two kinds.
C8_ExactlyOneWrite ==
    \A r \in Runners :
        LET run     == db[r]
            cid     == run.calendar_id
            keys    == {run.states.keys[j] : j \in 1..Len(run.states.keys)}
            Had(d)  == KeyTaken(run.table0, cid, d)
            Same(d) == Row(cid, d, run.states.val[d]) \in run.table0
            W(d)    == WritesFor(run.ops, d)
        IN  (run.pc = "returned" /\ Clean(run)) =>
              /\ \A d \in keys :
                    /\ Cardinality(W(d)) = (IF Had(d) /\ Same(d) THEN 0 ELSE 1)
                    /\ \A n \in W(d) :
                          /\ run.ops[n].op = (IF Had(d) THEN "update" ELSE "insert")
                          /\ run.ops[n].sid = run.states.val[d]
              /\ \A n \in 1..Len(run.ops) : IsWrite(run.ops[n]) => run.ops[n].date \in keys
              /\ run.inserted = Cardinality({d \in keys : ~Had(d)})
              /\ run.updated = Cardinality({d \in keys : Had(d) /\ ~Same(d)})

\* A clean run that inserted, updated and left a row alone.
C8_Witness ==
    /\ db[1].pc = "returned"
    /\ Clean(db[1])
    /\ db[1].inserted = 1
    /\ db[1].updated = 1
    /\ Len(db[1].states.keys) = 3
    /\ Len(db[1].ops) = 3

\* C9: when a run returns, every date of the map was processed - it was
\* found with the same state or a write was issued for it, in the order of
\* the map, whatever failed before it - and inserted and updated count only
\* the writes that succeeded.
C9_FailureIsolated ==
    \A r \in Runners :
        LET run == db[r] IN
        run.pc = "returned" =>
            /\ run.k = Len(run.states.keys) + 1
            /\ \A j \in 1..Len(run.states.keys) :
                  LET d == run.states.keys[j] IN
                  \/ d \in DOMAIN run.existing /\ run.existing[d] = run.states.val[d]
                  \/ WritesFor(run.ops, d) # {}
            /\ run.inserted = Cardinality(OkOps(run.ops, "insert"))
            /\ run.updated = Cardinality(OkOps(run.ops, "update"))

\* The write of the first date failed, the writes of the later dates were
\* made and counted.
C9_Witness ==
    /\ db[1].pc = "returned"
    /\ Len(db[1].states.keys) = 3
    /\ Len(db[1].ops) = 4
    /\ db[1].ops[2].op = "insert" /\ db[1].ops[2].res = "error"
    /\ db[1].ops[3].res = "ok"
    /\ db[1].ops[4].res = "ok"
    /\ db[1].inserted + db[1].updated = 2

-----------------------------------------------------------------------------
(* Properties of the batch run                                             *)

\* The date lies in [start_date, end_date].
InRange(date) ==
    ~StrLess(date, StrfIso(start_date)) /\ ~StrLess(StrfIso(end_date), date)

RowsInRange(tbl, cid) == {row \in tbl : row.cid = cid /\ InRange(row.date)}

\* update_cabin_availability has returned for the current cabin after a
\* fetch that brought a response, and the computed map is empty: there was
\* no blocked period, or calculate_states returned {}.
ReturnedWithEmptyMap ==
    /\ run_pc = "account"
    /\ ~NoData(cabin.availability_data)
    /\ \/ cabin.blocked_periods = <<>>
       \/ calc_pc = "returned" /\ states = EmptyDict

\* C5: when the computed map is empty after a successful fetch (and the
\* delete call, if made, did not fail), no row of the calendar with a date in
\* the range is left and the result is (0, 0).
C5_EmptyMapClears ==
    (ReturnedWithEmptyMap /\ cabin.deleted # "error")
        => /\ RowsInRange(table, cabins[cabin_i].calendar_id) = {}
           /\ cabin.result = <<0, 0>>

\* C10, safety: the loop body begins with the positions 1, 2, ... in order,
\* each once, and when run is done it has begun with every one.
VisitedInOrder ==
    /\ \A n \in 1..Len(visited) : visited[n] = n
    /\ Len(visited) <= Len(cabins)
    /\ run_pc = "done" => Len(visited) = Len(cabins)

\* C10: the batch run terminates, having visited every cabin mapping exactly
\* once in list order, whatever the fetches and the processing of the
\* properties did.
C10_BatchVisitsAll ==
    /\ []VisitedInOrder
    /\ <>(run_pc = "done")

\* The first property's processing raised, the second was still processed
\* and the run ended.
C10_Witness ==
    /\ run_pc = "done"
    /\ Len(cabins) = 2
    /\ visited = <<1, 2>>
    /\ totals.failed = 1
    /\ totals.successful = 1

-----------------------------------------------------------------------------
(* Properties of update_cabin_availability and run                         *)

\* The fetches that end in an error: an HTTP status error, a request error
\* or timeout, any other exception, a non-zero API status code.
FetchErrors ==
    {o \in FetchOutcomes :
        o.kind \in {"http_error", "request_error", "unexpected_error",
                    "not_found", "api_error"}}

\* The keys (calendar_id, date) of the rows of a table.
Keys(tbl) == {<<row.cid, row.date>> : row \in tbl}

\* C11: a fetch that ends in an error gives no data, and while the property
\* in hand has no data no row is deleted, inserted or updated and no store
\* call is made; a row disappears only in the delete that follows a response
\* from which no blocked period was extracted.
C11_FetchErrorTouchesNothing ==
    /\ [](\A o \in FetchErrors : NoData(FetchResult(o)))
    /\ [](run_pc \in {"delete", "in_calc", "in_db"}
              => ~NoData(cabin.availability_data))
    /\ [][(table' # table \/ db' # db)
              => ~NoData(cabin.availability_data)]_vars
    /\ [][Keys(table') # Keys(table) /\ Keys(table') \subseteq Keys(table)
              => /\ run_pc = "delete"
                 /\ ~NoData(cabin.availability_data)
                 /\ cabin.availability_data \notin
                        {FetchResult(o) : o \in FetchErrors}
                 /\ cabin.blocked_periods = <<>>]_vars

\* The fetch for calendar 1 failed while the table holds a row of it, and
\* update_cabin_availability has returned (0, 0) with the row in place.
C11_Witness ==
    /\ run_pc = "account"
    /\ cabin.availability_data = NoResponse
    /\ cabins[cabin_i].calendar_id = 1
    /\ Row(1, Iso(2026, 6, 11), CalBooked) \in table
    /\ cabin.result = <<0, 0>>

-----------------------------------------------------------------------------
(* Properties of parse_date                                                *)

\* a/b/yyyy in every writing of a and b (padded or not) with the numbers
\* written: <<string, yyyy, a, b>>.
SlashWritings ==
    UNION {{<<wa \o <<ChSlash>> \o wb \o <<ChSlash>> \o Pad4(y), y, a, b>> :
                wa \in {Unpadded(a), Pad2(a)}, wb \in {Unpadded(b), Pad2(b)}} :
            y \in ParseYears, a \in 1..31, b \in 1..31}

\* The formats under which strptime accepts the string.
Accepting(date_str) ==
    {k \in 1..Len(formats) : Strptime(date_str, formats[k]) # None}

\* C12: parse_date returns what the first accepting format of its list
\* reads, and None when no format accepts; a/b/yyyy with a valid month a and
\* day b is month a, day b, and it is read day-first only when month a,
\* day b is no date.
C12_FirstFormatWins ==
    parse.pc = "returned" =>
        LET date_str == parse.date_str
            ok       == Accepting(date_str)
        IN  /\ ok = {} => parse.result = None
            /\ ok # {} =>
                  \E k \in ok :
                      /\ \A j \in ok : k <= j
                      /\ parse.k = k
                      /\ parse.result = Strptime(date_str, formats[k])
            /\ parse.result = parse_date(date_str)
            /\ \A w \in SlashWritings :
                  w[1] = date_str =>
                      /\ ValidDate(w[2], w[3], w[4])
                            => parse.result = <<w[2], w[3], w[4]>>
                      /\ (parse.result = <<w[2], w[4], w[3]>> /\ w[3] # w[4])
                            => ~ValidDate(w[2], w[3], w[4])

\* "01/02/2026", valid month-first and day-first, has been read as 2 January.
C12_Witness ==
    /\ parse.pc = "returned"
    /\ parse.date_str = Fmt(<<2026, 1, 2>>, 1)
    /\ Strptime(parse.date_str, formats[4]) = <<2026, 2, 1>>
    /\ parse.result = <<2026, 1, 2>>

\* Every date as it is written in the formats %m/%d/%Y, %Y-%m-%d and
\* %m-%d-%Y: <<string, date, position of the format>>.
RoundTrips == {<<Fmt(dt, k), dt, k>> : dt \in ParseDates, k \in 1..3}

\* C13: a date written as MM/DD/YYYY, YYYY-MM-DD or MM-DD-YYYY is parsed
\* back to itself, by the format it was written in; "2026-06-10" is read by
\* %Y-%m-%d as 10 June 2026.
C13_RoundTrip ==
    parse.pc = "returned" =>
        /\ \A w \in RoundTrips :
              w[1] = parse.date_str => parse.result = w[2] /\ parse.k = w[3]
        /\ parse.date_str = Iso(2026, 6, 10)
              => parse.result = <<2026, 6, 10>> /\ parse.k = 2

\* "2026-06-10" has been parsed, after %m/%d/%Y refused it.
C13_Witness ==
    /\ parse.pc = "returned"
    /\ parse.date_str = Iso(2026, 6, 10)
    /\ Strptime(parse.date_str, formats[1]) = None
    /\ parse.result = <<2026, 6, 10>>

-----------------------------------------------------------------------------
(* More properties of calculate_states                                     *)

\* The periods of the list whose two dates can be read, in their order.
Kept(periods) == SelectSeq(periods, Parsable)

\* calculate_states raises on the list: in sorted(), or at a period's
\* check-out date.
CalcRaises(periods) ==
    SortRaises(periods) \/ \E k \in 1..Len(periods) : PeriodRaises(periods[k])

\* C14: when a period of the list has a start or end date that is missing
\* or cannot be parsed, calculate_states does not raise for it and returns
\* the map it returns for the list without such periods.
C14_BadPeriodDropped ==
    (/\ calc_pc \in {"returned", "raised"}
     /\ \E k \in 1..Len(blocked_periods) : ~Parsable(blocked_periods[k])
     /\ ~CalcRaises(Kept(blocked_periods)))
        => /\ calc_pc = "returned"
           /\ states.val = calculate_states(Kept(blocked_periods)).val

\* The period's start date can be read.
HasStart(p) ==
    ~Falsy(Get(p.startdate)) /\ parse_date(Get(p.startdate)) # None

\* The periods of the list that start on the date, in their order.
StartingOn(periods, dt) ==
    SelectSeq(periods, LAMBDA p : HasStart(p) /\ PStart(p) = dt)

\* C15: the periods are visited in non-decreasing order of their start
\* dates, whatever the format and the year of the dates, and periods that
\* start on the same date in their input order.
C15_VisitedInDateOrder ==
    calc_pc \in {"loop", "returned"} =>
        LET visit == SelectSeq(sorted_periods, HasStart) IN
        /\ \A i, j \in 1..Len(visit) :
              i < j => DateLeq(PStart(visit[i]), PStart(visit[j]))
        /\ \A k \in 1..Len(visit) :
              StartingOn(sorted_periods, PStart(visit[k]))
                  = StartingOn(blocked_periods, PStart(visit[k]))

-----------------------------------------------------------------------------
(* More properties of _update_database                                     *)

\* At most one row for each (cid, date).
UniqueKey(tbl) ==
    \A row1, row2 \in tbl :
        (row1.cid = row2.cid /\ row1.date = row2.date) => row1 = row2

\* A lookup of the run that did not fail asked for the date.
LookedUp(run, date) ==
    \E n \in 1..Len(run.ops) :
        /\ run.ops[n].op = "select" /\ run.ops[n].res = "ok"
        /\ \E j \in 1..Len(run.ops[n].date) : run.ops[n].date[j] = date

Counted(t) == t.successful + t.skipped + t.failed

\* What update_cabin_availability returns in this step to run, if it does.
ReturnedNow == IF run_pc = "account" THEN cabin.result ELSE <<0, 0>>

\* C17: the three counters together count the properties the loop is done
\* with - every mapping when the run ends - one counter going up by one for
\* each property, and the totals go up by the counts that
\* update_cabin_availability returns.
C17_SummaryAccounts ==
    /\ [](Counted(totals) = (IF run_pc = "start" THEN 0
                             ELSE IF run_pc = "done" THEN Len(cabins)
                             ELSE cabin_i - 1))
    /\ [][/\ (cabin_i' # cabin_i /\ run_pc # "start")
                => /\ cabin_i' = cabin_i + 1
                   /\ \E c \in {"successful", "skipped", "failed"} :
                         /\ totals'[c] = totals[c] + 1
                         /\ \A o \in {"successful", "skipped", "failed"} \ {c} :
                               totals'[o] = totals[o]
          /\ cabin_i' = cabin_i => Counted(totals') = Counted(totals)
          /\ totals'.total_inserted = totals.total_inserted + ReturnedNow[1]
          /\ totals'.total_updated = totals.total_updated + ReturnedNow[2]]_vars

\* A run over two properties has ended: one wrote rows and one was skipped.
C17_Witness ==
    /\ run_pc = "done"
    /\ Len(cabins) = 2
    /\ totals.successful = 1
    /\ totals.skipped = 1
    /\ totals.total_inserted + totals.total_updated >= 2

\* How far the loop body of run has come with the property in hand.
Phase(pc) ==
    CASE pc \in {"idle", "start", "loop"} -> 0
      [] pc = "fetch" -> 1
      [] pc = "extract" -> 2
      [] pc = "in_calc" -> 3
      [] pc \in {"delete", "in_db"} -> 4
      [] pc \in {"account", "raised"} -> 5
      [] pc = "done" -> 6

\* The kinds of step of a property's pipeline.
FetchStep == run_pc = "fetch" /\ run_pc' # run_pc

ComputeStep == calc_vars' # calc_vars

StoreStep == table' # table \/ db' # db \/ (run_pc = "delete" /\ run_pc' # run_pc)

\* Neither calculate_states nor _update_database is in the middle of a call.
PipelineAtRest ==
    /\ calc_pc \in {"idle", "returned", "raised"}
    /\ db[1].pc \in {"idle", "returned"}

\* C18: for the property in hand the loop body only moves forward through
\* fetch, compute and reconcile; calculate_states runs on fetched data only;
\* the store is read or written only once the map of the fetched periods is
\* settled (calculate_states has returned it, or there are no periods and
\* the rows are cleared), and for that property's calendar; and the loop
\* moves to the next property only when the body has ended, so the next
\* fetch starts with nothing of the previous property still running.
C18_PipelineOrdered ==
    [][/\ cabin_i' = cabin_i => Phase(run_pc') >= Phase(run_pc)
       /\ cabin_i' # cabin_i
             => /\ Phase(run_pc) \in {0, 5}
                /\ Phase(run_pc') \in {0, 6}
                /\ PipelineAtRest
       /\ FetchStep
             => /\ PipelineAtRest
                /\ cabin_i' = cabin_i
       /\ ComputeStep
             => /\ cabin_i' = cabin_i
                /\ ~NoData(cabin.availability_data)
                /\ \/ run_pc = "extract" /\ calc_pc' = "start"
                   \/ run_pc = "in_calc" /\ calc_pc \in {"start", "loop"}
                /\ ~StoreStep
       /\ StoreStep
             => /\ cabin_i' = cabin_i
                /\ ~NoData(cabin.availability_data)
                /\ \/ /\ run_pc = "delete"
                      /\ cabin.blocked_periods = <<>>
                      /\ calculate_states(cabin.blocked_periods) = EmptyDict
                   \/ /\ run_pc \in {"in_calc", "in_db"}
                      /\ calc_pc = "returned"
                      /\ blocked_periods = cabin.blocked_periods
                      /\ db'[1].states = states
                      /\ db'[1].calendar_id = cabins[cabin_i].calendar_id]_vars

\* The second property's rows are being written after the first property's
\* rows were.
C18_Witness ==
    /\ run_pc = "in_db"
    /\ cabin_i = 2
    /\ db[1].pc = "write"
    /\ db[1].k > 1
    /\ totals.successful = 1

\* update_cabin_availability has returned for the current cabin after a
\* fetch that brought a response, with the map computed and no store call
\* failed: the rows were cleared, or calculate_states returned and its map,
\* if not empty, was reconciled.
ReturnedClean ==
    /\ run_pc = "account"
    /\ ~NoData(cabin.availability_data)
    /\ \/ cabin.blocked_periods = <<>> /\ cabin.deleted = "ok"
       \/ /\ cabin.blocked_periods # <<>>
          /\ calc_pc = "returned"
          /\ states # EmptyDict
                => /\ db[1].pc = "returned"
                   /\ db[1].states = states
                   /\ db[1].calendar_id = cabins[cabin_i].calendar_id
                   /\ Clean(db[1])

\* The map the run computed for the current cabin.
ComputedMap == IF cabin.blocked_periods = <<>> THEN EmptyDict ELSE states

\* C19: after update_cabin_availability has completed for a calendar with a
\* successful fetch and no store error, every row of the calendar with a
\* date in the range is a date of the freshly computed map.
C19_NoStaleRows ==
    ReturnedClean
        => \A row \in RowsInRange(table, cabins[cabin_i].calendar_id) :
              \E n \in 1..Len(ComputedMap.keys) : ComputedMap.keys[n] = row.date

\* The state recorded for a date, 0 when there is none.
Recorded(sts, date_str) == IF DictHas(sts, date_str) THEN sts.val[date_str] ELSE 0

\* The walk of the period comes to the period's own start date: the start
\* lies in the range and not after the check-out day.
WalkVisitsStart(p) ==
    /\ Parsable(p)
    /\ DateLeq(start_date, PStart(p)) /\ DateLeq(PStart(p), end_date)
    /\ DateLeq(PStart(p), NextDay(PEnd(p)))

\* The table of the claim: the state of the start date from the one recorded.
StartStateAfter(prior) ==
    CASE prior = 0 -> CalIn
      [] prior = CalIn -> CalIn
      [] prior = CalOut -> CalInOut
      [] prior = CalInOut -> CalInOut
      [] prior = CalBooked -> CalIn

\* C20: when a period is processed and its walk comes to its start date,
\* the state of that date afterwards is determined by the state recorded
\* before - none and check-in give check-in, check-out and turn-around give
\* turn-around, booked gives check-in - and no date becomes turn-around
\* otherwise: only the start date of the period in hand, from check-out.
\* The first conjunct takes one pass of the loop body on the start date from
\* each recorded state; the second follows calculate_states.
C20_CheckInBranch ==
    /\ [](\A prior \in {0, CalIn, CalOut, CalInOut, CalBooked} :
            LET start    == <<2026, 6, 10>>
                end      == <<2026, 6, 12>>
                date_str == StrfIso(start)
                sts      == IF prior = 0 THEN EmptyDict
                            ELSE DictSet(EmptyDict, date_str, prior)
            IN  Recorded(DayState(sts, start, start, end, NextDay(end)), date_str)
                    = StartStateAfter(prior))
    /\ [][\A p \in PeriodPool :
            (AtPeriod(p) /\ period_idx' = period_idx + 1)
                => /\ WalkVisitsStart(p)
                        => LET date_str == StrfIso(PStart(p))
                           IN  Recorded(states', date_str) =
                                   StartStateAfter(Recorded(states, date_str))
                   /\ \A date_str \in DOMAIN states'.val :
                         (/\ states'.val[date_str] = CalInOut
                          /\ Recorded(states, date_str) # CalInOut)
                             => /\ WalkVisitsStart(p)
                                /\ date_str = StrfIso(PStart(p))
                                /\ Recorded(states, date_str) = CalOut]_vars

\* A stay that starts on the check-out day of the stay before: the day was
\* check-out and is turn-around now.
C20_Witness ==
    /\ calc_pc = "returned"
    /\ blocked_periods = <<Period(<<2026, 2, 1>>, <<2026, 2, 7>>, 1),
                           Period(<<2026, 2, 8>>, <<2026, 2, 10>>, 1)>>
    /\ states.val[Iso(2026, 2, 8)] = CalInOut
    /\ states.val[Iso(2026, 2, 1)] = CalIn

-----------------------------------------------------------------------------
(* Properties of the check-out and booked branches, the clamp and the map  *)

\* The dates of the range, start_date to end_date.
RangeDates == DatesFromTo(start_date, end_date)

\* C21: in the returned map a date of the range has the state given by the
\* last period in processing order that touches it: check-out when the date
\* is that period's check-out day, booked when it is one of its later
\* nights (start < d <= end).
C21_LastTouchWins ==
    calc_pc = "returned" =>
        \A k \in 1..Len(sorted_periods) :
            LET p == sorted_periods[k] IN
            Parsable(p) =>
                \A dt \in RangeDates \cap DatesFromTo(PStart(p), NextDay(PEnd(p))) :
                    (\A j \in (k + 1)..Len(sorted_periods) :
                         ~Touches(sorted_periods[j], dt))
                        => /\ dt = NextDay(PEnd(p))
                                => Recorded(states, StrfIso(dt)) = CalOut
                           /\ (DateLess(PStart(p), dt) /\ DateLeq(dt, PEnd(p)))
                                => Recorded(states, StrfIso(dt)) = CalBooked

\* The period overlaps the range only partly: it starts before start_date
\* or its check-out day is after end_date, and some day of it is inside.
PartlyInRange(p) ==
    /\ Parsable(p)
    /\ DateLeq(PStart(p), end_date)
    /\ DateLeq(start_date, NextDay(PEnd(p)))
    /\ DateLess(PStart(p), start_date) \/ DateLess(end_date, NextDay(PEnd(p)))

\* [max(start, start_date), min(checkout_date, end_date)]
ClampedDates(p) == RangeDates \cap DatesFromTo(PStart(p), NextDay(PEnd(p)))

\* Processing the period leaves every other date as it was and writes the
\* dates of the clamped range, the start date being written as given by
\* atStart(prior), the check-out day as check-out, the other days as booked.
WritesClamped(p, atStart(_)) ==
    /\ DOMAIN states'.val = DOMAIN states.val \cup {StrfIso(dt) : dt \in ClampedDates(p)}
    /\ \A date_str \in DOMAIN states.val \ {StrfIso(dt) : dt \in ClampedDates(p)} :
          states'.val[date_str] = states.val[date_str]
    /\ \A dt \in ClampedDates(p) :
          states'.val[StrfIso(dt)] =
              IF dt = PStart(p) THEN atStart(Recorded(states, StrfIso(dt)))
              ELSE IF dt = NextDay(PEnd(p)) THEN CalOut
              ELSE CalBooked
    /\ DateLess(PStart(p), start_date)
          => \A dt \in ClampedDates(p) : states'.val[StrfIso(dt)] \in {CalOut, CalBooked}
    /\ DateLess(end_date, NextDay(PEnd(p)))
          => \A dt \in ClampedDates(p) : states'.val[StrfIso(dt)] # CalOut

\* C22 as stated: a period that overlaps the range only partly writes
\* exactly the dates of the clamped range, each by its position in the
\* period, the start date (end_date, when the period starts there) as
\* CHECK_IN.
C22_ClampedWalk ==
    [][\A p \in PeriodPool :
        (AtPeriod(p) /\ period_idx' = period_idx + 1 /\ PartlyInRange(p))
            => WritesClamped(p, LAMBDA prior : CalIn)]_vars

\* C22 amended: the same, the start date being written by the check-in
\* rule: TURN_AROUND when a check-out or a turn-around is recorded for it,
\* CHECK_IN otherwise.
C22_ClampedWalkByPosition ==
    [][\A p \in PeriodPool :
        (AtPeriod(p) /\ period_idx' = period_idx + 1 /\ PartlyInRange(p))
            => WritesClamped(p, StartStateAfter)]_vars

\* A stay over the turn of the year after one that ended on 01-02: its
\* check-out day is not written and 12-30, 12-31 are its only dates.
C22_Witness ==
    /\ calc_pc = "returned"
    /\ blocked_periods = <<Period(<<2025, 12, 30>>, <<2026, 1, 2>>, 1),
                           Period(<<2026, 12, 30>>, <<2027, 1, 2>>, 1)>>
    /\ states.keys = <<Iso(2026, 1, 1), Iso(2026, 1, 2), Iso(2026, 1, 3),
                       Iso(2026, 12, 30), Iso(2026, 12, 31)>>
    /\ states.val[Iso(2026, 1, 1)] = CalBooked
    /\ states.val[Iso(2026, 1, 3)] = CalOut
    /\ states.val[Iso(2026, 12, 30)] = CalIn
    /\ states.val[Iso(2026, 12, 31)] = CalBooked

\* C23: every key of the map calculate_states builds and returns is a date
\* of the range, listed once, and every value is check-in, check-out,
\* turn-around or booked: the available code is never stored.
C23_MapInRange ==
    /\ \A date_str \in DOMAIN states.val :
          /\ \E dt \in RangeDates : date_str = StrfIso(dt)
          /\ states.val[date_str] \in {CalIn, CalOut, CalInOut, CalBooked}
          /\ states.val[date_str] # CalAvailable
    /\ {states.keys[n] : n \in 1..Len(states.keys)} = DOMAIN states.val
    /\ \A m, n \in 1..Len(states.keys) : states.keys[m] = states.keys[n] => m = n

\* A returned map with all four states, from a stay and the next one that
\* starts on its check-out day.
C23_Witness ==
    /\ calc_pc = "returned"
    /\ Len(blocked_periods) = 2
    /\ {states.val[d] : d \in DOMAIN states.val} = {CalIn, CalOut, CalInOut, CalBooked}
    /\ Len(states.keys) = 11

-----------------------------------------------------------------------------
(* Properties of two runs of _update_database at once                      *)

\* No insert or update of the run failed, but for refused duplicates.
WritesDone(run) ==
    \A n \in 1..Len(run.ops) :
        IsWrite(run.ops[n]) => run.ops[n].res = "ok" \/ IsDuplicateError(run.ops[n].res)

BothReturned == \A r \in Runners : db[r].pc = "returned"

\* C24: two runs for one calendar and one map, their store calls
\* interleaved in any way and no row there at the start, both return; when
\* no write of theirs failed (a refused duplicate apart), every date of the
\* map then has one row, with the computed state, and the two inserted
\* counts add up to the number of dates.
C24_RaceSettles ==
    /\ [](\A r \in Runners : db[r].pc \in {"fetch", "write", "fallback", "returned"})
    /\ []((BothReturned /\ \A r \in Runners : WritesDone(db[r]))
            => /\ UniqueKey(table)
               /\ \A date_str \in DOMAIN db[1].states.val :
                     Row(1, date_str, db[1].states.val[date_str]) \in table
               /\ db[1].inserted + db[2].inserted = Len(db[1].states.keys))
    /\ <>BothReturned

\* Both runs returned with no failed call; each inserted a row, and each
\* had an insert refused as a duplicate and updated the row instead.
C24_Witness ==
    /\ BothReturned
    /\ \A r \in Runners :
          /\ WritesDone(db[r])
          /\ db[r].inserted >= 1
          /\ db[r].updated >= 1
          /\ \E n \in 1..Len(db[r].ops) : IsDuplicateError(db[r].ops[n].res)

-----------------------------------------------------------------------------
(* More properties of the batch run                                        *)

\* C25: the skipped counter goes up only for a mapping without calendar_id
\* or streamline_id and for a property whose fetch brought no data, and a
\* property whose fetch brought data and whose processing returned is
\* counted as successful, with counts (0, 0) too.
C25_SkippedOnlyWithoutData ==
    [][/\ totals'.skipped # totals.skipped
            => \/ run_pc = "loop" /\ MissingId(cabins[cabin_i])
               \/ run_pc = "account" /\ NoData(cabin.availability_data)
       /\ (run_pc = "account" /\ run_pc' # run_pc /\ ~NoData(cabin.availability_data))
            => totals'.successful = totals.successful + 1]_vars

\* The rows that the processing of the calendar has no business with: those
\* of another calendar and those dated outside [start_date, end_date].
RowsBeside(tbl, cid) == {row \in tbl : row.cid # cid \/ ~InRange(row.date)}

\* C26: a step that changes the table belongs to the delete or to the
\* reconcile of the property in hand, and leaves every row of another
\* calendar and every row dated outside the range as it was, adding none.
C26_OnlyOwnRowsInRange ==
    [][table' # table
          => /\ run_pc \in {"delete", "in_db"}
             /\ RowsBeside(table', cabins[cabin_i].calendar_id)
                    = RowsBeside(table, cabins[cabin_i].calendar_id)]_vars

\* Calendar 1 was cleared: its row of 2026 is gone, its rows of 2025 and
\* 2027 and the row of calendar 2 are there.
C26_Witness ==
    /\ run_pc = "account"
    /\ cabins[cabin_i].calendar_id = 1
    /\ cabin.deleted = "ok"
    /\ table = {Row(2, Iso(2026, 6, 10), CalIn),
                Row(1, Iso(2025, 12, 31), CalOut), Row(1, Iso(2027, 1, 1), CalIn)}

-----------------------------------------------------------------------------
(* Properties of _update_database beside another client                    *)

\* Some lookup batch of the run failed.
LookupFailed(run) ==
    \E n \in 1..Len(run.ops) : run.ops[n].op = "select" /\ run.ops[n].res # "ok"

\* C27: when _update_database has returned for a map that is not empty, no
\* insert or update failed (a refused duplicate apart) and no other client
\* wrote, every date of the map has a row of the calendar with the computed
\* state, whatever the lookups returned.
C27_MapPersisted ==
    \A r \in Runners :
        (/\ db[r].pc = "returned"
         /\ db[r].states # EmptyDict
         /\ ~db[r].dirty
         /\ WritesDone(db[r]))
            => \A date_str \in DOMAIN db[r].states.val :
                  Row(db[r].calendar_id, date_str, db[r].states.val[date_str]) \in table

\* A run whose lookup failed: the existing row's insert was refused and the
\* row updated, the missing row inserted.
C27_Witness ==
    /\ db[1].pc = "returned"
    /\ ~db[1].dirty
    /\ WritesDone(db[1])
    /\ LookupFailed(db[1])
    /\ db[1].inserted >= 1
    /\ db[1].updated >= 1
    /\ \E n \in 1..Len(db[1].ops) : IsDuplicateError(db[1].ops[n].res)

-----------------------------------------------------------------------------
(* Order of the input, and inverted periods                                *)

\* The lists with the same periods in another order.
Reorderings(periods) ==
    {[n \in 1..Len(periods) |-> periods[f[n]]] :
        f \in {g \in [1..Len(periods) -> 1..Len(periods)] :
                  \A m, n \in 1..Len(periods) : g[m] = g[n] => m = n}}

\* Every period has a start date that can be read, and no two the same.
DistinctStarts(periods) ==
    /\ \A n \in 1..Len(periods) : HasStart(periods[n])
    /\ \A m, n \in 1..Len(periods) : PStart(periods[m]) = PStart(periods[n]) => m = n

\* C28: for a list of periods with pairwise distinct start dates,
\* calculate_states gives every reordering of the list the outcome it gives
\* the list: the same map, or an exception as well.
C28_OrderIndependent ==
    (calc_pc \in {"returned", "raised"} /\ DistinctStarts(blocked_periods))
        => \A q \in Reorderings(blocked_periods) :
              /\ CalcRaises(q) = (calc_pc = "raised")
              /\ calc_pc = "returned" => calculate_states(q) = states

\* Two stays given with the later one first, the second starting on the
\* check-out day of the first: that day is a turn-around.
C28_Witness ==
    /\ calc_pc = "returned"
    /\ blocked_periods = <<Period(<<2026, 2, 8>>, <<2026, 2, 10>>, 1),
                           Period(<<2026, 2, 1>>, <<2026, 2, 7>>, 1)>>
    /\ states.val[Iso(2026, 2, 8)] = CalInOut
    /\ states.keys[1] = Iso(2026, 2, 1)

\* The period's end date is before its start date.
Inverted(p) == Parsable(p) /\ DateLess(PEnd(p), PStart(p))

\* C29: processing a period whose end date is earlier than its start date
\* leaves the map as it was.
C29_InvertedAddsNothing ==
    [][\A p \in PeriodPool :
        (AtPeriod(p) /\ period_idx' = period_idx + 1 /\ Inverted(p))
            => states' = states]_vars

-----------------------------------------------------------------------------
(* The counts of _update_database                                          *)

\* C30: when a run returns and no other client wrote meanwhile, inserted is
\* the number of rows in the table that were not there when it was called
\* and updated the number of rows that were there with another state,
\* whatever the lookups returned.
C30_CountsAreChanges ==
    \A r \in Runners :
        (db[r].pc = "returned" /\ ~db[r].dirty)
            => /\ db[r].inserted =
                      Cardinality({row \in table :
                                      ~KeyTaken(db[r].table0, row.cid, row.date)})
               /\ db[r].updated =
                      Cardinality({row \in db[r].table0 : row \notin table})

=============================================================================
